---- MODULE Spec2Model ----
(***************************************************************************)
(* Order-management backend of src/app.py: the Flask handlers add_order,   *)
(* get_orders, get_order, update_order and bill_created over the `order`   *)
(* and `product` tables.                                                   *)
(*                                                                         *)
(* Time is counted in ticks, TicksPerDay of them to a day; day 0 is        *)
(* 2024-01-01.  Prices are the catalogue's floats (10.0, 20.0, ...) kept   *)
(* as integers; every price of the model is a multiple of ten, so the      *)
(* 20 % discount is exact.  A nullable column holds <<>> (NULL) or <<v>>.  *)
(***************************************************************************)
EXTENDS Integers, Sequences, FiniteSets

VARIABLES
    now,            \* datetime.utcnow(), in ticks
    product_price,  \* product table: id -> price (names are fixed, see Catalogue)
    orders,         \* order table: the rows in primary-key order, id = index
    inflight,       \* concurrent PUT /orders requests between their query and their commit
    commits,        \* number of committed writes to the database so far
    last,           \* the handler call that produced this state and its response
    pre             \* the database as that call found it

vars == <<now, product_price, orders, inflight, commits, last, pre>>

----------------------------------------------------------------------------
(* Bounds of the model *)

TicksPerDay == 2    \* clock resolution
MaxCommits == 4     \* committed writes to the database in one behaviour
NumRequests == 2    \* PUT /orders requests that may be in flight together

----------------------------------------------------------------------------
(* Program constants *)

DiscountDays == 30      \* if delta.days > 30
DiscountPercent == 20   \* discount = 0.2

\* The first two rows create_initial_users puts in the product table.
Catalogue ==
    << [name |-> "Product 1", price |-> 10],
       [name |-> "Product 2", price |-> 20] >>

ProductIds == DOMAIN Catalogue

Roles == {"accountant", "cashier", "sales assistant", "other"}

AddOrderRoles == {"cashier", "sales assistant", "accountant"}
GetOrdersRoles == {"accountant"}
GetOrderRoles == {"sales assistant", "accountant"}
\* Mutation of BillRoles: the cashier is left out.
BillRolesAccountantOnly == {"accountant"}

BillRoles == {"accountant", "cashier"}

None == "<None>"
NULL == <<>>

\* Mutation of Falsy: only a missing value is refused.
FalsyMissingOnly(x) == x = None

Falsy(x) == x = None \/ x = ""

----------------------------------------------------------------------------
(* Time *)

Midnight(day) == day * TicksPerDay

\* The instants the clock visits: every tick of day 0, then midnight of
\* day 30 and of day 31.
Instants ==
    {Midnight(0) + k : k \in 0..(TicksPerDay - 1)}
        \cup {Midnight(DiscountDays), Midnight(DiscountDays + 1)}

\* (current_date - creation_date).days
DeltaDays(current, creation) == (current - creation) \div TicksPerDay

\* datetime.strptime(s, '%Y-%m-%d'): midnight of the day, or ValueError
DateTable ==
    [s \in {"2024-01-01", "2024-01-31", "2024-02-01"} |->
        CASE s = "2024-01-01" -> 0
          [] s = "2024-01-31" -> 30
          [] s = "2024-02-01" -> 31]

Strptime(s) ==
    IF s \in DOMAIN DateTable
        THEN [ok |-> TRUE, value |-> Midnight(DateTable[s])]
        ELSE [ok |-> FALSE, value |-> 0]

----------------------------------------------------------------------------
(* Rows and queries *)

\* Mutation of NewOrder: the price is the catalogue's, not the product row's.
NewOrderSeedPrice(pid, name, price, t) ==
    [product_id |-> pid, price |-> Catalogue[pid].price, product_name |-> name,
     status |-> "received", created_at |-> t, bill_created_at |-> NULL]

\* Order(product_id, product_name, price) with the column defaults
NewOrder(pid, name, price, t) ==
    [product_id |-> pid, price |-> price, product_name |-> name,
     status |-> "received", created_at |-> t, bill_created_at |-> NULL]

\* Product.query.filter_by(name=product_name).first(): 0 when there is none
ProductByName(name) ==
    IF \E p \in ProductIds : Catalogue[p].name = name
        THEN CHOOSE p \in ProductIds : Catalogue[p].name = name
        ELSE 0

\* Order.query.filter_by(product_id=pid).first(): 0 when there is none
OrderByProduct(rows, pid) ==
    IF \E i \in 1..Len(rows) : rows[i].product_id = pid
        THEN CHOOSE i \in 1..Len(rows) :
                /\ rows[i].product_id = pid
                /\ \A j \in 1..Len(rows) : rows[j].product_id = pid => i <= j
        ELSE 0

\* Order.query.get(order_id)
OrderExists(rows, id) == id \in 1..Len(rows)

Database == [orders |-> orders, product_price |-> product_price]

NoCall == [op |-> "none"]

Init ==
    /\ now = Midnight(0)
    /\ product_price = [p \in ProductIds |-> Catalogue[p].price]
    /\ orders = <<>>
    /\ inflight = [r \in 1..NumRequests |-> [pc |-> "idle"]]
    /\ commits = 0
    /\ last = NoCall
    /\ pre = [orders |-> <<>>, product_price |-> [p \in ProductIds |-> Catalogue[p].price]]

----------------------------------------------------------------------------
(* Responses *)

\* The handler answers `call` and leaves the database as it found it.
Reject(call) ==
    /\ last = NoCall
    /\ last' = call
    /\ pre' = Database
    /\ UNCHANGED <<now, product_price, orders, commits>>

\* abort(403): the role check comes before the handler reads its arguments
Forbidden(op, role) == [op |-> op, role |-> role, code |-> 403]

\* The handler commits `rows` as the order table and answers `call`.
Commit(rows, call) ==
    /\ last = NoCall
    /\ commits < MaxCommits
    /\ orders' = rows
    /\ commits' = commits + 1
    /\ last' = call
    /\ pre' = Database
    /\ UNCHANGED <<now, product_price>>

----------------------------------------------------------------------------
(* PUT /orders *)

\* Mutation of Refreshed: the refresh also puts the status back.
RefreshedAsNew(order, price) == [order EXCEPT !.price = price, !.status = "received"]

\* existing_order.price = product.price
Refreshed(order, price) == [order EXCEPT !.price = price]

AddOrderCall(role, product_name, code, id) ==
    [op |-> "add_order", role |-> role, product_name |-> product_name,
     code |-> code, order_id |-> id]

add_order(role, product_name) ==
    LET pid == ProductByName(product_name)
        existing == OrderByProduct(orders, pid)
    IN  IF role \notin AddOrderRoles
            THEN Reject(Forbidden("add_order", role))
        ELSE IF Falsy(product_name)
            THEN Reject(AddOrderCall(role, product_name, 400, 0))
        ELSE IF pid = 0
            THEN Reject(AddOrderCall(role, product_name, 404, 0))
        ELSE IF existing # 0
            THEN Commit([orders EXCEPT ![existing] = Refreshed(@, product_price[pid])],
                        AddOrderCall(role, product_name, 200, existing))
        ELSE Commit(Append(orders, NewOrder(pid, Catalogue[pid].name, product_price[pid], now)),
                    AddOrderCall(role, product_name, 201, Len(orders) + 1))

----------------------------------------------------------------------------
(* GET /orders *)

\* Order.created_at.between(start_date, end_date)
Between(t, start, end) == start <= t /\ t <= end

\* ids of the rows the query returns, in table order
Listed(rows, start, end) ==
    SelectSeq([i \in 1..Len(rows) |-> i],
              LAMBDA i : Between(rows[i].created_at, start, end))

AllIds(rows) == [i \in 1..Len(rows) |-> i]

GetOrdersCall(role, start, end, code, ids) ==
    [op |-> "get_orders", role |-> role, start_date |-> start, end_date |-> end,
     code |-> code, ids |-> ids]

get_orders(role, start_date_str, end_date_str) ==
    LET start == Strptime(start_date_str)
        end == Strptime(end_date_str)
    IN  IF role \notin GetOrdersRoles
            THEN Reject(Forbidden("get_orders", role))
        ELSE IF ~Falsy(start_date_str) /\ ~Falsy(end_date_str)
            THEN IF ~start.ok \/ ~end.ok
                    \* strptime raises ValueError, which no handler catches
                    THEN Reject(GetOrdersCall(role, start_date_str, end_date_str, 500, <<>>))
                    ELSE Reject(GetOrdersCall(role, start_date_str, end_date_str, 200,
                                              Listed(orders, start.value, end.value)))
        ELSE Reject(GetOrdersCall(role, start_date_str, end_date_str, 200, AllIds(orders)))

----------------------------------------------------------------------------
(* GET /orders/<order_id> *)

\* Mutation of DiscountApplies: the thirtieth day is discounted too.
DiscountAppliesFromDay30(delta_days) == delta_days >= DiscountDays

\* delta.days > 30
DiscountApplies(delta_days) == delta_days > DiscountDays

\* order.price * (1 - discount)
Discounted(price) == (price * (100 - DiscountPercent)) \div 100

ViewPrice(order, t) ==
    IF DiscountApplies(DeltaDays(t, order.created_at))
        THEN Discounted(order.price)
        ELSE order.price

GetOrderCall(role, id, code, price) ==
    [op |-> "get_order", role |-> role, order_id |-> id, code |-> code, price |-> price]

get_order(role, order_id) ==
    IF role \notin GetOrderRoles
        THEN Reject(Forbidden("get_order", role))
    ELSE IF ~OrderExists(orders, order_id)
        THEN Reject(GetOrderCall(role, order_id, 404, 0))
    ELSE Reject(GetOrderCall(role, order_id, 200, ViewPrice(orders[order_id], now)))

----------------------------------------------------------------------------
(* PUT /orders/<order_id> *)

\* order.status = new_status
WithStatus(order, new_status) == [order EXCEPT !.status = new_status]

UpdateOrderCall(role, id, status, code) ==
    [op |-> "update_order", role |-> role, order_id |-> id, status |-> status,
     code |-> code]

\* Mutation of update_order: the status is checked before the order is looked up.
update_order_status_first(role, order_id, new_status) ==
    IF Falsy(new_status)
        THEN Reject(UpdateOrderCall(role, order_id, new_status, 400))
    ELSE IF ~OrderExists(orders, order_id)
        THEN Reject(UpdateOrderCall(role, order_id, new_status, 404))
    ELSE Commit([orders EXCEPT ![order_id] = WithStatus(@, new_status)],
                UpdateOrderCall(role, order_id, new_status, 200))

\* login_required is the only check: the handler never reads current_user.role
update_order(role, order_id, new_status) ==
    IF ~OrderExists(orders, order_id)
        THEN Reject(UpdateOrderCall(role, order_id, new_status, 404))
    ELSE IF Falsy(new_status)
        THEN Reject(UpdateOrderCall(role, order_id, new_status, 400))
    ELSE Commit([orders EXCEPT ![order_id] = WithStatus(@, new_status)],
                UpdateOrderCall(role, order_id, new_status, 200))

----------------------------------------------------------------------------
(* PUT /bill/<order_id> *)

\* Mutation of Billed: an order that has a bill keeps its timestamp.
BilledOnce(order, t) ==
    IF order.bill_created_at = <<>> THEN [order EXCEPT !.bill_created_at = <<t>>] ELSE order

\* order.bill_created_at = datetime.utcnow()
Billed(order, t) == [order EXCEPT !.bill_created_at = <<t>>]

BillCall(role, id, code) ==
    [op |-> "bill_created", role |-> role, order_id |-> id, code |-> code]

bill_created(role, order_id) ==
    IF role \notin BillRoles
        THEN Reject(Forbidden("bill_created", role))
    ELSE IF ~OrderExists(orders, order_id)
        THEN Reject(BillCall(role, order_id, 404))
    ELSE Commit([orders EXCEPT ![order_id] = Billed(@, now)],
                BillCall(role, order_id, 200))

----------------------------------------------------------------------------
(* Environment *)

\* The response is sent and the server takes the next request.
ReturnResponse ==
    /\ last # NoCall
    /\ last' = NoCall
    /\ pre' = Database
    /\ UNCHANGED <<now, product_price, orders, inflight, commits>>

\* The clock moves on to a later instant.
Tick ==
    /\ \E t \in Instants : t > now /\ now' = t
    /\ last' = NoCall
    /\ pre' = [orders |-> orders, product_price |-> product_price]
    /\ UNCHANGED <<product_price, orders, inflight, commits>>

\* The catalogue is maintained outside the handlers: a product's price is
\* changed in the product table.
Prices == {Catalogue[p].price : p \in ProductIds}

ExternalPriceChange ==
    \E p \in ProductIds, v \in Prices :
        /\ v # product_price[p]
        /\ commits < MaxCommits
        /\ commits' = commits + 1
        /\ product_price' = [product_price EXCEPT ![p] = v]
        /\ last' = NoCall
        /\ pre' = [orders |-> orders, product_price |-> product_price']
        /\ UNCHANGED <<now, orders, inflight>>

----------------------------------------------------------------------------
(* Inputs *)

ProductNameInputs == {None, "", "Product 0"} \cup {Catalogue[p].name : p \in ProductIds}

DateInputs == {None, "2024-13-01", "2024-01-01", "2024-01-31"}

StatusInputs == {None, "", "received", "shipped"}

OrderIdInputs == 1..(Len(orders) + 1)

AddOrder ==
    /\ \E role \in Roles, name \in ProductNameInputs : add_order(role, name)
    /\ UNCHANGED inflight

GetOrders ==
    /\ \E role \in Roles, s \in DateInputs, e \in DateInputs : get_orders(role, s, e)
    /\ UNCHANGED inflight

GetOrder ==
    /\ \E role \in Roles, id \in OrderIdInputs : get_order(role, id)
    /\ UNCHANGED inflight

UpdateOrder ==
    /\ \E role \in Roles, id \in OrderIdInputs, s \in StatusInputs :
            update_order(role, id, s)
    /\ UNCHANGED inflight

BillCreated ==
    /\ \E role \in Roles, id \in OrderIdInputs : bill_created(role, id)
    /\ UNCHANGED inflight

Next ==
    \/ AddOrder
    \/ GetOrders
    \/ GetOrder
    \/ UpdateOrder
    \/ BillCreated
    \/ ReturnResponse
    \/ Tick
    \/ ExternalPriceChange

Spec == Init /\ [][Next]_vars

----------------------------------------------------------------------------
(* Concurrent PUT /orders: each request runs add_order in its own thread   *)
(* with its own session.  The handler holds no lock and the order table    *)
(* has no unique constraint on product_id, so other requests' statements   *)
(* may run between the SELECT of line 208 and the commit of line 211 or    *)
(* 225.                                                                    *)

Requests == 1..NumRequests

Idle == [pc |-> "idle"]

\* The response of a request whose role check passed at its query step.
AddOrderResponse(product_name, code, id) ==
    [op |-> "add_order", product_name |-> product_name, code |-> code, order_id |-> id]

\* lines 195-208: the role check, the argument check and the two queries
add_order_query(r, role, product_name) ==
    LET pid == ProductByName(product_name)
    IN  /\ inflight[r] = Idle
        /\ IF role \notin AddOrderRoles
               THEN Reject(Forbidden("add_order", role)) /\ UNCHANGED inflight
           ELSE IF Falsy(product_name)
               THEN Reject(AddOrderCall(role, product_name, 400, 0)) /\ UNCHANGED inflight
           ELSE IF pid = 0
               THEN Reject(AddOrderCall(role, product_name, 404, 0)) /\ UNCHANGED inflight
           ELSE /\ inflight' = [inflight EXCEPT ![r] =
                        [pc |-> "queried", product_id |-> pid,
                         product_price |-> product_price[pid],
                         existing_order |-> OrderByProduct(orders, pid)]]
                /\ UNCHANGED <<now, product_price, orders, commits, last, pre>>

\* lines 209-225: the update or the insert, and the commit
add_order_commit(r) ==
    LET req == inflight[r]
        name == Catalogue[req.product_id].name
    IN  /\ req.pc = "queried"
        /\ inflight' = [inflight EXCEPT ![r] = Idle]
        /\ IF req.existing_order # 0
               THEN Commit([orders EXCEPT ![req.existing_order] = Refreshed(@, req.product_price)],
                           AddOrderResponse(name, 200, req.existing_order))
               ELSE Commit(Append(orders, NewOrder(req.product_id, name, req.product_price, now)),
                           AddOrderResponse(name, 201, Len(orders) + 1))

AddOrderQuery ==
    \E r \in Requests, role \in Roles, name \in ProductNameInputs :
        add_order_query(r, role, name)

AddOrderCommit == \E r \in Requests : add_order_commit(r)

NextConcurrent ==
    \/ AddOrderQuery
    \/ AddOrderCommit
    \/ ReturnResponse
    \/ Tick
    \/ ExternalPriceChange

SpecConcurrent == Init /\ [][NextConcurrent]_vars

----------------------------------------------------------------------------
(* Properties.  `last` is the call that produced the state, `pre` the       *)
(* database as the call found it, `now` the time of the call.               *)

IsCall(op) == last.op = op

Answered(op) == last.op = op /\ last.code # 403

PreIds == 1..Len(pre.orders)

ProductsUnchanged == product_price = pre.product_price

\* the product a PUT /orders call names and the ids of the orders it had
Named(p) == Catalogue[p].name = last.product_name

HadOrders(p) == {i \in PreIds : pre.orders[i].product_id = p}

\* C1: after any interleaving of PUT /orders requests the order table holds
\* at most one order per product_id.
C1_OneOrderPerProduct ==
    \A i, j \in 1..Len(orders) :
        orders[i].product_id = orders[j].product_id => i = j

\* C2: a PUT /orders call by a permitted role that names a product with no
\* order answers 201 and appends exactly one order: that product's id, status
\* "received", the product's price at the call, no bill; every other order and
\* every product is as before.
C2_CreateAddsOneOrder ==
    Answered("add_order") /\ last.role \in {"cashier", "sales assistant", "accountant"} =>
        \A p \in ProductIds :
            Named(p) /\ HadOrders(p) = {} =>
                /\ last.code = 201
                /\ Len(orders) = Len(pre.orders) + 1
                /\ \A i \in PreIds : orders[i] = pre.orders[i]
                /\ last.order_id = Len(orders)
                /\ orders[Len(orders)].product_id = p
                /\ orders[Len(orders)].status = "received"
                /\ orders[Len(orders)].price = pre.product_price[p]
                /\ orders[Len(orders)].bill_created_at = <<>>
                /\ orders[Len(orders)].created_at = now
                /\ ProductsUnchanged

\* A second order is created, for a product whose price is no longer the
\* catalogue's.
C2_Witness ==
    /\ IsCall("add_order")
    /\ last.code = 201
    /\ Len(pre.orders) = 1
    /\ orders[Len(orders)].price # Catalogue[orders[Len(orders)].product_id].price

\* C3: a PUT /orders call by a permitted role that names a product with an
\* order O answers 200, sets O.price to the product's price and changes
\* nothing else: O's id, status, created_at and bill_created_at, the number of
\* orders, every other order and every product are as before.
C3_RefreshUpdatesPriceOnly ==
    Answered("add_order") /\ last.role \in {"cashier", "sales assistant", "accountant"} =>
        \A p \in ProductIds :
            Named(p) /\ HadOrders(p) # {} =>
                /\ last.code = 200
                /\ last.order_id \in HadOrders(p)
                /\ orders = [pre.orders EXCEPT ![last.order_id].price = pre.product_price[p]]
                /\ ProductsUnchanged

\* An order that update_order had set to "shipped" is refreshed to a new price.
C3_Witness ==
    /\ IsCall("add_order")
    /\ last.code = 200
    /\ pre.orders[last.order_id].status = "shipped"
    /\ orders[last.order_id].price # pre.orders[last.order_id].price

\* C4: PUT /orders by a permitted role with an empty or missing product_name
\* answers 400, with a name of no product 404, and in both cases the order
\* table is as before.
C4_BadNameChangesNothing ==
    Answered("add_order") /\ last.role \in {"cashier", "sales assistant", "accountant"} =>
        /\ last.product_name \in {None, ""} => last.code = 400
        /\ (last.product_name \notin {None, ""} /\ \A p \in ProductIds : ~Named(p))
                => last.code = 404
        /\ last.code \in {400, 404} =>
                /\ orders = pre.orders
                /\ ProductsUnchanged
                /\ last.product_name \in {None, ""} \/ \A p \in ProductIds : ~Named(p)

\* An empty product_name is refused while the table holds an order.
C4_Witness ==
    /\ IsCall("add_order")
    /\ last.code = 400
    /\ last.product_name = ""
    /\ Len(orders) > 0

\* the roles the specification lists for an operation
ListedRoles(op) ==
    CASE op = "add_order" -> {"cashier", "sales assistant", "accountant"}
      [] op = "get_orders" -> {"accountant"}
      [] op = "get_order" -> {"sales assistant", "accountant"}
      [] op = "bill_created" -> {"accountant", "cashier"}

\* C5: a call of add_order, get_orders, get_order or bill_created answers 403
\* exactly when the caller's role is outside the operation's listed set,
\* whatever its arguments, and a 403 leaves the database as it was.
C5_RoleChecks ==
    last.op \in {"add_order", "get_orders", "get_order", "bill_created"} =>
        /\ last.code = 403 <=> last.role \notin ListedRoles(last.op)
        /\ last.code = 403 => orders = pre.orders /\ ProductsUnchanged

\* A cashier reads an order of an empty table: every id is absent, and the
\* answer is 403, not 404.
C5_Witness ==
    /\ IsCall("get_order")
    /\ last.code = 403
    /\ last.role = "cashier"
    /\ orders = <<>>

\* C6: GET /orders/<id> of an existing order returns the stored price times
\* 0.8 exactly when more than 30 whole days lie between created_at and the
\* read, the stored price otherwise, and writes nothing.
C6_DiscountAfter30Days ==
    Answered("get_order") =>
        /\ last.code = 200 <=> last.order_id \in PreIds
        /\ last.code = 200 =>
              LET stored == orders[last.order_id].price
                  whole_days == (now - orders[last.order_id].created_at) \div TicksPerDay
              IN  last.price = IF whole_days > 30 THEN (stored * 8) \div 10 ELSE stored
        /\ orders = pre.orders
        /\ ProductsUnchanged

\* An order is read exactly 31 days after its creation, at a discount.
C6_Witness ==
    /\ IsCall("get_order")
    /\ last.code = 200
    /\ now - orders[last.order_id].created_at = 31 * TicksPerDay
    /\ last.price # orders[last.order_id].price

\* both query parameters were given
BothDates == ~(last.start_date \in {None, ""}) /\ ~(last.end_date \in {None, ""})

\* C7: GET /orders by an accountant with start_date and end_date returns
\* exactly the orders created on a day d with start <= d <= end.
C7_RangeByDay ==
    (Answered("get_orders") /\ last.code = 200 /\ BothDates) =>
        \A i \in 1..Len(orders) :
            (\E k \in 1..Len(last.ids) : last.ids[k] = i)
                <=> /\ DateTable[last.start_date] <= orders[i].created_at \div TicksPerDay
                    /\ orders[i].created_at \div TicksPerDay <= DateTable[last.end_date]

\* C8: GET /orders by an accountant with both dates given, one of them not a
\* YYYY-MM-DD date, answers 400.
C8_BadDateIs400 ==
    (Answered("get_orders") /\ BothDates
        /\ (last.start_date \notin DOMAIN DateTable \/ last.end_date \notin DOMAIN DateTable))
        => last.code = 400

\* C9: PUT /bill/<id> by an accountant or cashier sets bill_created_at of an
\* existing order to the time of the call, whatever it was, and changes
\* nothing else; on an absent order it answers 404 and changes nothing.
C9_BillOverwrites ==
    Answered("bill_created") =>
        /\ last.order_id \in PreIds =>
              /\ last.code = 200
              /\ orders = [pre.orders EXCEPT ![last.order_id].bill_created_at = <<now>>]
        /\ last.order_id \notin PreIds => last.code = 404 /\ orders = pre.orders
        /\ ProductsUnchanged

\* An order billed at an earlier time is billed again.
C9_Witness ==
    /\ IsCall("bill_created")
    /\ last.code = 200
    /\ pre.orders[last.order_id].bill_created_at # <<>>
    /\ pre.orders[last.order_id].bill_created_at # <<now>>
    /\ orders[last.order_id].bill_created_at = <<now>>

\* C10: PUT /orders/<id>, whatever the caller's role, answers 404 on an absent order (also with an empty
\* status), else 400 on an empty or missing status, else sets the status and
\* nothing else; every stored order has a non-empty status.
C10_StatusUpdate ==
    /\ IsCall("update_order") =>
          /\ last.order_id \notin PreIds => last.code = 404 /\ orders = pre.orders
          /\ (last.order_id \in PreIds /\ last.status \in {None, ""})
                => last.code = 400 /\ orders = pre.orders
          /\ (last.order_id \in PreIds /\ last.status \notin {None, ""})
                => /\ last.code = 200
                   /\ orders = [pre.orders EXCEPT ![last.order_id].status = last.status]
          /\ ProductsUnchanged
    /\ \A i \in 1..Len(orders) : orders[i].status \notin {None, ""}

\* A caller with none of the three roles sets a shipped order back to
\* "received" beside another order.
C10_Witness ==
    /\ IsCall("update_order")
    /\ last.code = 200
    /\ last.role = "other"
    /\ Len(orders) = 2
    /\ pre.orders[last.order_id].status = "shipped"
    /\ orders[last.order_id].status = "received"

====
